---- MODULE Spec2Model ----
(***************************************************************************)
(* relaxed: wrappers around atomics that always use Ordering::Relaxed.     *)
(*                                                                         *)
(* One cell of one of the eight instantiations of the impls! macro         *)
(* (src/src/lib.rs:100-110) is shared by NumProcs execution contexts.      *)
(* A value of the inner type is its in-memory byte layout, least           *)
(* significant byte first: a bool is the byte 0 or 1, an integer of w bits *)
(* is w/8 bytes in two's complement, an f32 is its four IEEE-754 bytes.    *)
(*                                                                         *)
(* Every access of the API is a relaxed atomic access of the one location  *)
(* the cell wraps.  Coherence makes the accesses of a single atomic        *)
(* location sequentially consistent, so each load, store and               *)
(* read-modify-write is one interleaved step on the variable cell; the     *)
(* ordering each access is made with is recorded in ord.                   *)
(***************************************************************************)
EXTENDS Integers, Sequences, FiniteSets, TLC

\* Number of execution contexts sharing the cell.
NumProcs == 2
\* Number of API calls the contexts make in all.
MaxCalls == 2

Procs == 1..NumProcs

\* No value: the empty byte string (every value of a cell has 1, 2 or 4 bytes).
None == <<>>

(***************************************************************************)
(* The instantiations: impls!($name: $atomic, $inner), lib.rs:100-110.     *)
(***************************************************************************)
Types == {"bool", "u8", "u16", "u32", "i8", "i16", "i32", "f32"}

IntTypes == {"u8", "u16", "u32", "i8", "i16", "i32"}

\* size_of::<$inner>() in bytes.
SizeOf(ty) ==
    CASE ty \in {"bool", "u8", "i8"} -> 1
      [] ty \in {"u16", "i16"} -> 2
      [] ty \in {"u32", "i32", "f32"} -> 4

\* n bytes, all equal to b.
Rep(n, b) == [i \in 1..n |-> b]

\* <$inner>::MIN for the integer types, false for bool.
MinValue(ty) ==
    CASE ty \in {"bool", "u8", "u16", "u32"} -> Rep(SizeOf(ty), 0)
      [] ty \in {"i8", "i16", "i32"} ->
            [i \in 1..SizeOf(ty) |-> IF i = SizeOf(ty) THEN 128 ELSE 0]

\* <$inner>::MAX for the integer types, true for bool.
MaxValue(ty) ==
    CASE ty = "bool" -> <<1>>
      [] ty \in {"u8", "u16", "u32"} -> Rep(SizeOf(ty), 255)
      [] ty \in {"i8", "i16", "i32"} ->
            [i \in 1..SizeOf(ty) |-> IF i = SizeOf(ty) THEN 127 ELSE 255]

\* <$inner as Default>::default(): false, 0 or 0.0, all of whose bytes are 0.
InnerDefault(ty) == Rep(SizeOf(ty), 0)

\* The values of $inner the callers pass: for bool both, for an integer type
\* the minimum, the maximum and 0, for f32 0.0, 1.0 and a NaN.
Values(ty) ==
    CASE ty = "bool" -> {<<0>>, <<1>>}
      [] ty \in IntTypes -> {MinValue(ty), MaxValue(ty), InnerDefault(ty)}
      [] ty = "f32" -> {<<0, 0, 0, 0>>, <<0, 0, 128, 63>>, <<0, 0, 192, 127>>}

(***************************************************************************)
(* The closures f the callers pass to update (lib.rs:54): pure functions   *)
(* $inner -> $inner.                                                       *)
(***************************************************************************)
\* |b| !b on bool.
LogicalNot(v) == <<1 - v[1]>>

\* |x| !x on an integer: every bit complemented.
BitNot(v) == [i \in 1..Len(v) |-> 255 - v[i]]

\* |x| x.wrapping_add(1) on an integer.
RECURSIVE WrappingInc(_)
WrappingInc(v) ==
    IF v = <<>> THEN <<>>
    ELSE IF v[1] < 255 THEN <<v[1] + 1>> \o Tail(v)
    ELSE <<0>> \o WrappingInc(Tail(v))

\* |x| -x on f32: the sign bit flipped.
FloatNeg(v) == [v EXCEPT ![4] = (v[4] + 128) % 256]

Fns(ty) ==
    CASE ty = "bool" -> {"not", "id"}
      [] ty \in IntTypes -> {"inc", "not"}
      [] ty = "f32" -> {"neg", "id"}

Apply(ty, f, v) ==
    CASE f = "id" -> v
      [] f = "not" /\ ty = "bool" -> LogicalNot(v)
      [] f = "not" /\ ty # "bool" -> BitNot(v)
      [] f = "inc" -> WrappingInc(v)
      [] f = "neg" -> FloatNeg(v)

(***************************************************************************)
(* core::sync::atomic, as the cell uses it: one location holding a value   *)
(* of $inner; an access replaces or returns the whole value and is made    *)
(* with the ordering it is given.                                          *)
(***************************************************************************)
\* core::sync::atomic::Ordering
Orderings == {"Relaxed", "Release", "Acquire", "AcqRel", "SeqCst"}

Relaxed == "Relaxed"

\* $atomic::new(val)
atomic_new(val) == val

\* $atomic::default(): the atomic of the inner type's default value (core's
\* atomics, and AtomicF32 of the atomic_float crate).
atomic_default(ty) == atomic_new(InnerDefault(ty))

\* $atomic::load(order): the content is left as it is.
load(c, order) == [cell |-> c, val |-> c, ord |-> order]

\* $atomic::store(val, order)
store(c, val, order) == [cell |-> val, ord |-> order]

\* AtomicBool::fetch_not(order): one read-modify-write.
atomic_fetch_not(c, order) == [cell |-> LogicalNot(c), val |-> c, ord |-> order]

(***************************************************************************)
(* The methods of the cell, lib.rs:34-57 and 112-118, as functions of the  *)
(* value c the location holds when the access is made.                     *)
(***************************************************************************)
\* A new that drops its argument and makes the cell of 0.
new_zeroed(val) == atomic_new([i \in 1..Len(val) |-> 0])

\* pub const fn new(val: $inner) -> Self
new(val) == atomic_new(val)

\* A from that drops its argument and makes the default cell.
from_default(val) == atomic_new([i \in 1..Len(val) |-> 0])

\* impl From<$inner> for $name: fn from(val: $inner) -> Self
from(val) == new(val)

\* A default that makes the cell of 1 (true).
default_one(ty) == atomic_new([i \in 1..SizeOf(ty) |-> IF i = 1 THEN 1 ELSE 0])

\* #[derive(Default)]
default(ty) == atomic_default(ty)

\* A get that loads with a stronger ordering.
get_acquire(c) == load(c, "Acquire")

\* A get that takes the value out of the cell, leaving 0 (a swap).
get_take(c) == [cell |-> [i \in 1..Len(c) |-> 0], val |-> c, ord |-> Relaxed]

\* pub fn get(&self) -> $inner
get(c) == load(c, Relaxed)

\* A set that is not atomic: it has written only the low byte of val.
set_torn(c, val) ==
    [cell |-> [i \in 1..Len(val) |-> IF i = 1 THEN val[i] ELSE c[i]],
     ord |-> Relaxed]

\* a | b on bytes.
RECURSIVE ByteOr(_, _)
ByteOr(a, b) ==
    IF a = 0 THEN b
    ELSE IF b = 0 THEN a
    ELSE (IF a % 2 = 1 \/ b % 2 = 1 THEN 1 ELSE 0) + 2 * ByteOr(a \div 2, b \div 2)

\* A set that keeps the bits the cell already holds (a fetch_or).
set_or(c, val) ==
    [cell |-> [i \in 1..Len(val) |-> ByteOr(c[i], val[i])], ord |-> Relaxed]

\* pub fn set(&self, val: $inner)
set(c, val) == store(c, val, Relaxed)

\* An update whose read returns zero (false), whatever the cell holds.
update_get_zero(c) == [cell |-> c, val |-> [i \in 1..Len(c) |-> 0], ord |-> Relaxed]

\* update, its first access: self.get()
update_get(c) == get(c)

\* An update whose write applies f to what the cell holds at the write (a
\* read-modify-write).
update_set_rmw(c, ty, f, got) == set(c, Apply(ty, f, c))

\* An update that calls f twice: it stores f(f(got)).
update_set_twice(c, ty, f, got) == set(c, Apply(ty, f, Apply(ty, f, got)))

\* A fetch_or(true) in the place of fetch_not: it leaves true.
fetch_not_or(c) == [cell |-> <<1>>, val |-> c, ord |-> Relaxed]

\* An update whose write stores the value read, f's result dropped.
update_set_unapplied(c, ty, f, got) == set(c, got)

\* update, its second access: self.set(f(got)), got the value self.get()
\* returned.
update_set(c, ty, f, got) == set(c, Apply(ty, f, got))

\* A fetch_not that returns the value it has written.
fetch_not_returns_new(c) ==
    [cell |-> LogicalNot(c), val |-> LogicalNot(c), ord |-> Relaxed]

\* A fetch_not that only loads.
fetch_not_load(c) == [cell |-> c, val |-> c, ord |-> Relaxed]

\* pub fn fetch_not(&self) -> bool
fetch_not(c) == atomic_fetch_not(c, Relaxed)

\* The serde data model call the inner value's Serialize makes
\* (serialize_bool, serialize_u8, ...) with the value it is given.
serialize_inner(ty, v) == <<ty, v>>

\* A serialize as #[derive(Serialize)] would make it: the value wrapped in
\* a serialize_newtype_struct call.
serialize_newtype(ty, c) ==
    LET l == load(c, Relaxed)
    IN  [cell |-> l.cell, out |-> <<"newtype_struct", serialize_inner(ty, l.val)>>,
         ord |-> l.ord]

\* fn serialize<S>(&self, serializer: S): the value read and the call made.
serialize(ty, c) ==
    LET l == load(c, Relaxed)
    IN  [cell |-> l.cell, out |-> serialize_inner(ty, l.val), ord |-> l.ord]

\* Inputs no primitive type deserializes from: a string and a unit.
Malformed == {<<"str", None>>, <<"unit", None>>}

\* No result.
NoResult == [ok |-> FALSE, val |-> None, err |-> None]

\* <$inner as Deserialize>::deserialize(deserializer), the deserializer
\* holding the data model value w: the value of a w of the type's own kind,
\* for any other w the invalid-type error naming what was found and what
\* was expected.
deserialize_inner(ty, w) ==
    IF w[1] = ty
    THEN [ok |-> TRUE, val |-> w[2], err |-> None]
    ELSE [ok |-> FALSE, val |-> None, err |-> <<"invalid type", w[1], ty>>]

\* A deserialize that reports failures with a message of its own.
deserialize_custom_error(ty, w) ==
    LET r == deserialize_inner(ty, w)
    IN  IF r.ok THEN [ok |-> TRUE, val |-> new(r.val), err |-> None]
        ELSE [ok |-> FALSE, val |-> None, err |-> <<"custom", "invalid cell">>]

\* fn deserialize<D>(deserializer: D) -> Result<Self, D::Error>:
\* serde::Deserialize::deserialize(deserializer).map(Self::new); in an Ok
\* result val is what the new cell holds.
deserialize(ty, w) ==
    LET r == deserialize_inner(ty, w)
    IN  IF r.ok THEN [ok |-> TRUE, val |-> new(r.val), err |-> None]
        ELSE r

(***************************************************************************)
(* Formatting.  A text is its sequence of characters.                      *)
(***************************************************************************)
\* The bytes of v, most significant first.
BigEndian(v) == [i \in 1..Len(v) |-> v[Len(v) + 1 - i]]

\* The base-256 number be (most significant byte first) divided by 10, carry
\* being the remainder so far: the quotient and the remainder.  (cur and
\* rest are bound by a singleton set so that each is computed once.)
RECURSIVE Div10(_, _)
Div10(be, carry) ==
    IF be = <<>> THEN [q |-> <<>>, r |-> carry]
    ELSE CHOOSE res \in
             UNION {{[q |-> <<cur \div 10>> \o rest.q, r |-> rest.r] :
                         rest \in {Div10(Tail(be), cur % 10)}} :
                     cur \in {carry * 256 + Head(be)}} : TRUE

DigitChar(d) == <<"0", "1", "2", "3", "4", "5", "6", "7", "8", "9">>[d + 1]

\* The decimal digits of the base-256 number be, none for 0.
RECURSIVE DecimalDigits(_)
DecimalDigits(be) ==
    IF \A i \in 1..Len(be) : be[i] = 0 THEN <<>>
    ELSE CHOOSE digits \in
             {DecimalDigits(d.q) \o <<DigitChar(d.r)>> : d \in {Div10(be, 0)}} : TRUE

\* An unsigned integer in decimal.
UnsignedText(v) ==
    IF \A i \in 1..Len(v) : v[i] = 0 THEN <<"0">>
    ELSE DecimalDigits(BigEndian(v))

\* A two's complement integer in decimal: "-" and the magnitude when the
\* sign bit is set.
SignedText(v) ==
    IF v[Len(v)] >= 128 THEN <<"-">> \o UnsignedText(WrappingInc(BitNot(v)))
    ELSE UnsignedText(v)

\* <f32 as Debug>::fmt of the floats the callers pass and their negations;
\* any other float is named by its bits.
FloatText(v) ==
    CASE v = <<0, 0, 0, 0>> -> <<"0", ".", "0">>
      [] v = <<0, 0, 0, 128>> -> <<"-", "0", ".", "0">>
      [] v = <<0, 0, 128, 63>> -> <<"1", ".", "0">>
      [] v = <<0, 0, 128, 191>> -> <<"-", "1", ".", "0">>
      [] v = <<0, 0, 192, 127>> -> <<"N", "a", "N">>
      [] v = <<0, 0, 192, 255>> -> <<"N", "a", "N">>
      [] OTHER -> <<"b", "i", "t", "s", " ">> \o UnsignedText(v)

\* <$inner as Debug>::fmt
debug_fmt_inner(ty, v) ==
    CASE ty = "bool" ->
            IF v = <<0>> THEN <<"f", "a", "l", "s", "e">> ELSE <<"t", "r", "u", "e">>
      [] ty \in {"u8", "u16", "u32"} -> UnsignedText(v)
      [] ty \in {"i8", "i16", "i32"} -> SignedText(v)
      [] ty = "f32" -> FloatText(v)

\* <$atomic as Debug>::fmt: the value loaded once (with the relaxed
\* ordering in libcore, lib.rs:83) and formatted as the inner type's Debug.
atomic_debug_fmt(ty, c) ==
    LET l == load(c, Relaxed)
    IN  [cell |-> l.cell, text |-> debug_fmt_inner(ty, l.val)]

\* A Debug as #[derive(Debug)] would make it: the name of the struct around
\* the text.
fmt_debug_derived(ty, c) ==
    LET a == atomic_debug_fmt(ty, c)
    IN  [cell |-> a.cell, text |-> <<"R", "e", "l", "a", "x", "e", "d", "(">> \o a.text \o <<")">>]

\* impl Debug for $name: self.0.fmt(f)
fmt_debug(ty, c) == atomic_debug_fmt(ty, c)

\* impl Display for $name: self.0.fmt(f), the fmt of the atomic, which is
\* its Debug (the atomics implement no Display).
fmt_display(ty, c) == atomic_debug_fmt(ty, c)

(***************************************************************************)
(* State.                                                                  *)
(***************************************************************************)
VARIABLES
    ty,       \* the instantiation the cell is of
    ctor,     \* how the cell was constructed: "new", "default" or "from"
    initv,    \* the value the construction put in the cell
    cell,     \* self.0: the value the atomic holds
    pc,       \* per context: "idle", or the access it is about to make
    op,       \* per context: the method it is in, or was last in
    arg,      \* per context, while in set: val
    fn,       \* per context, while in update: f
    tmp,      \* per context, while in update: the value self.get() returned
    ret,      \* per context: the value get or fetch_not returned
    wire,     \* per context: what serialize handed the serializer
    made,     \* per context: the result deserialize returned
    text,     \* per context: the text Debug::fmt or Display::fmt wrote
    ord,      \* per context: the ordering of its latest access
    calls,    \* the number of calls made so far
    ver,      \* history: the number of writes made to the cell
    rver,     \* history, per context: ver when it last read the cell
    last,     \* history: the latest write: who made it, in which method, the
              \*          value it was given to write
    before,   \* history: the value the latest write replaced
    written,  \* history: every value the construction or a write was given
    nflips,   \* history: the number of fetch_not calls made
    nincs,    \* history, per context: the number of writes its updates
              \*          with the increment closure made
    trace,    \* history, per context: what its call has done so far: the
              \*          accesses to the cell and the calls of f, in order
    twin,     \* history: the cell new(initv) makes, given the same calls
    ttmp      \* history, per context: tmp of the same update of the twin

vars == <<ty, ctor, initv, cell, pc, op, arg, fn, tmp, ret, wire, made, text,
          ord, calls, ver, rver, last, before, written, nflips, nincs, trace,
          twin, ttmp>>

hist == <<ver, rver, last, before, written, nflips, nincs, twin, ttmp>>

Ctors == {"new", "default", "from"}

Init ==
    /\ ty \in Types
    /\ ctor \in Ctors
    /\ initv \in Values(ty)
    /\ ctor = "default" => initv = InnerDefault(ty)
    /\ cell = CASE ctor = "new" -> new(initv)
                [] ctor = "default" -> default(ty)
                [] ctor = "from" -> from(initv)
    /\ pc = [p \in Procs |-> "idle"]
    /\ op = [p \in Procs |-> "none"]
    /\ arg = [p \in Procs |-> None]
    /\ fn = [p \in Procs |-> "none"]
    /\ tmp = [p \in Procs |-> None]
    /\ ret = [p \in Procs |-> None]
    /\ wire = [p \in Procs |-> None]
    /\ made = [p \in Procs |-> NoResult]
    /\ text = [p \in Procs |-> None]
    /\ ord = [p \in Procs |-> "none"]
    /\ calls = 0
    /\ ver = 0
    /\ rver = [p \in Procs |-> 0]
    /\ last = [who |-> 0, op |-> ctor, val |-> initv]
    /\ before = None
    /\ written = {initv}
    /\ nflips = 0
    /\ nincs = [p \in Procs |-> 0]
    /\ trace = [p \in Procs |-> <<>>]
    /\ twin = new(initv)
    /\ ttmp = [p \in Procs |-> None]

(***************************************************************************)
(* A context calls a method: the arguments are the caller's.               *)
(***************************************************************************)
Enter(p, o, pc0, v, f) ==
    /\ pc[p] = "idle"
    /\ calls < MaxCalls
    /\ calls' = calls + 1
    /\ pc' = [pc EXCEPT ![p] = pc0]
    /\ op' = [op EXCEPT ![p] = o]
    /\ arg' = [arg EXCEPT ![p] = v]
    /\ fn' = [fn EXCEPT ![p] = f]
    /\ tmp' = [tmp EXCEPT ![p] = None]
    /\ ret' = [ret EXCEPT ![p] = None]
    /\ wire' = [wire EXCEPT ![p] = None]
    /\ made' = [made EXCEPT ![p] = NoResult]
    /\ text' = [text EXCEPT ![p] = None]
    /\ trace' = [trace EXCEPT ![p] = <<>>]
    /\ UNCHANGED <<ty, ctor, initv, cell, ord, hist>>

CallGet(p) == Enter(p, "get", "get", None, "none")

CallSet(p) == \E v \in Values(ty) : Enter(p, "set", "set", v, "none")

CallUpdate(p) == \E f \in Fns(ty) : Enter(p, "update", "update_get", None, f)

CallFetchNot(p) == ty = "bool" /\ Enter(p, "fetch_not", "fetch_not", None, "none")

CallSerialize(p) == Enter(p, "serialize", "serialize", None, "none")

CallFmtDebug(p) == Enter(p, "fmt_debug", "fmt_debug", None, "none")

CallFmtDisplay(p) == Enter(p, "fmt_display", "fmt_display", None, "none")

\* The deserializer holds what a context's serialize has produced, or a
\* malformed input.
CallDeserialize(p) ==
    \E w \in {wire[q] : q \in Procs} \cup Malformed :
        /\ w # None
        /\ Enter(p, "deserialize", "deserialize", w, "none")

(***************************************************************************)
(* The accesses.                                                           *)
(***************************************************************************)
\* An access that waits while another context is between the two accesses of
\* an update (update holding a lock).
Ready_locked(p, at) ==
    pc[p] = at /\ \A q \in Procs \ {p} : pc[q] # "update_set"

\* Context p makes the access at `at` as soon as it is there: the methods are
\* straight-line code, with no lock, loop or wait before an access.
Ready(p, at) == pc[p] = at

\* Context p's call has done what.
Did(p, what) == trace' = [trace EXCEPT ![p] = @ \o what]

\* What a write leaves in the history.
Wrote(p, o, v) ==
    /\ ver' = ver + 1
    /\ last' = [who |-> p, op |-> o, val |-> v]
    /\ before' = cell
    /\ written' = written \cup {v}

\* get: self.0.load(Ordering::Relaxed)
Get(p) ==
    /\ Ready(p, "get")
    /\ LET l == get(cell)
       IN  /\ cell' = l.cell
           /\ ret' = [ret EXCEPT ![p] = l.val]
           /\ ord' = [ord EXCEPT ![p] = l.ord]
    /\ twin' = get(twin).cell
    /\ rver' = [rver EXCEPT ![p] = ver]
    /\ Did(p, <<"load">>)
    /\ pc' = [pc EXCEPT ![p] = "idle"]
    /\ UNCHANGED <<ty, ctor, initv, op, arg, fn, tmp, wire, made, text, calls,
                   ver, last, before, written, nflips, nincs, ttmp>>

\* set: self.0.store(val, Ordering::Relaxed)
Set(p) ==
    /\ Ready(p, "set")
    /\ LET s == set(cell, arg[p])
       IN  /\ cell' = s.cell
           /\ ord' = [ord EXCEPT ![p] = s.ord]
    /\ Wrote(p, "set", arg[p])
    /\ twin' = set(twin, arg[p]).cell
    /\ Did(p, <<"store">>)
    /\ arg' = [arg EXCEPT ![p] = None]
    /\ pc' = [pc EXCEPT ![p] = "idle"]
    /\ UNCHANGED <<ty, ctor, initv, op, fn, tmp, ret, wire, made, text, calls,
                   rver, nflips, nincs, ttmp>>

\* update, first step: self.get()
UpdateGet(p) ==
    /\ Ready(p, "update_get")
    /\ LET l == update_get(cell)
       IN  /\ cell' = l.cell
           /\ tmp' = [tmp EXCEPT ![p] = l.val]
           /\ ord' = [ord EXCEPT ![p] = l.ord]
    /\ LET t == update_get(twin)
       IN  /\ twin' = t.cell
           /\ ttmp' = [ttmp EXCEPT ![p] = t.val]
    /\ rver' = [rver EXCEPT ![p] = ver]
    /\ Did(p, <<"load">>)
    /\ pc' = [pc EXCEPT ![p] = "update_set"]
    /\ UNCHANGED <<ty, ctor, initv, op, arg, fn, ret, wire, made, text, calls,
                   ver, last, before, written, nflips, nincs>>

\* update, second step: self.set(f(..)) with the value the first step read
UpdateSet(p) ==
    /\ Ready(p, "update_set")
    /\ LET s == update_set(cell, ty, fn[p], tmp[p])
       IN  /\ cell' = s.cell
           /\ ord' = [ord EXCEPT ![p] = s.ord]
    /\ Wrote(p, "update", Apply(ty, fn[p], tmp[p]))
    /\ nincs' = IF fn[p] = "inc" THEN [nincs EXCEPT ![p] = @ + 1] ELSE nincs
    /\ twin' = update_set(twin, ty, fn[p], ttmp[p]).cell
    /\ ttmp' = [ttmp EXCEPT ![p] = None]
    /\ Did(p, <<"f", "store">>)
    /\ fn' = [fn EXCEPT ![p] = "none"]
    /\ tmp' = [tmp EXCEPT ![p] = None]
    /\ pc' = [pc EXCEPT ![p] = "idle"]
    /\ UNCHANGED <<ty, ctor, initv, op, arg, ret, wire, made, text, calls, rver,
                   nflips>>

\* RelaxedBool::fetch_not: self.0.fetch_not(Ordering::Relaxed)
FetchNot(p) ==
    /\ Ready(p, "fetch_not")
    /\ LET r == fetch_not(cell)
       IN  /\ cell' = r.cell
           /\ ret' = [ret EXCEPT ![p] = r.val]
           /\ ord' = [ord EXCEPT ![p] = r.ord]
           /\ Wrote(p, "fetch_not", r.cell)
    /\ rver' = [rver EXCEPT ![p] = ver]
    /\ nflips' = nflips + 1
    /\ twin' = fetch_not(twin).cell
    /\ Did(p, <<"rmw">>)
    /\ pc' = [pc EXCEPT ![p] = "idle"]
    /\ UNCHANGED <<ty, ctor, initv, op, arg, fn, tmp, wire, made, text, calls,
                   nincs, ttmp>>

\* Serialize::serialize: self.0.load(Ordering::Relaxed).serialize(serializer)
Serialize(p) ==
    /\ Ready(p, "serialize")
    /\ LET s == serialize(ty, cell)
       IN  /\ cell' = s.cell
           /\ wire' = [wire EXCEPT ![p] = s.out]
           /\ ord' = [ord EXCEPT ![p] = s.ord]
    /\ twin' = serialize(ty, twin).cell
    /\ rver' = [rver EXCEPT ![p] = ver]
    /\ Did(p, <<"load">>)
    /\ pc' = [pc EXCEPT ![p] = "idle"]
    /\ UNCHANGED <<ty, ctor, initv, op, arg, fn, tmp, ret, made, text, calls,
                   ver, last, before, written, nflips, nincs, ttmp>>

\* Deserialize::deserialize: no access to the shared cell; the result is a
\* cell of its own or the error.
Deserialize(p) ==
    /\ Ready(p, "deserialize")
    /\ made' = [made EXCEPT ![p] = deserialize(ty, arg[p])]
    /\ arg' = [arg EXCEPT ![p] = None]
    /\ pc' = [pc EXCEPT ![p] = "idle"]
    /\ UNCHANGED <<ty, ctor, initv, cell, op, fn, tmp, ret, wire, text, ord,
                   calls, trace, hist>>

\* Debug::fmt: self.0.fmt(f)
FmtDebug(p) ==
    /\ Ready(p, "fmt_debug")
    /\ LET r == fmt_debug(ty, cell)
       IN  /\ cell' = r.cell
           /\ text' = [text EXCEPT ![p] = r.text]
    /\ twin' = fmt_debug(ty, twin).cell
    /\ rver' = [rver EXCEPT ![p] = ver]
    /\ Did(p, <<"load">>)
    /\ pc' = [pc EXCEPT ![p] = "idle"]
    /\ UNCHANGED <<ty, ctor, initv, op, arg, fn, tmp, ret, wire, made, ord,
                   calls, ver, last, before, written, nflips, nincs, ttmp>>

\* Display::fmt: self.0.fmt(f)
FmtDisplay(p) ==
    /\ Ready(p, "fmt_display")
    /\ LET r == fmt_display(ty, cell)
       IN  /\ cell' = r.cell
           /\ text' = [text EXCEPT ![p] = r.text]
    /\ twin' = fmt_display(ty, twin).cell
    /\ rver' = [rver EXCEPT ![p] = ver]
    /\ Did(p, <<"load">>)
    /\ pc' = [pc EXCEPT ![p] = "idle"]
    /\ UNCHANGED <<ty, ctor, initv, op, arg, fn, tmp, ret, wire, made, ord,
                   calls, ver, last, before, written, nflips, nincs, ttmp>>

\* Context p calls a method.
Call(p) ==
    \/ CallGet(p)
    \/ CallSet(p)
    \/ CallUpdate(p)
    \/ CallFetchNot(p)
    \/ CallSerialize(p)
    \/ CallDeserialize(p)
    \/ CallFmtDebug(p)
    \/ CallFmtDisplay(p)

\* Context p makes the next access of the method it is in.
Access(p) ==
    \/ Get(p)
    \/ Set(p)
    \/ UpdateGet(p)
    \/ UpdateSet(p)
    \/ FetchNot(p)
    \/ Serialize(p)
    \/ Deserialize(p)
    \/ FmtDebug(p)
    \/ FmtDisplay(p)

Next == \E p \in Procs : Call(p) \/ Access(p)

Spec == Init /\ [][Next]_vars

\* Every context that is inside a method keeps being scheduled.
FairSpec == Spec /\ \A p \in Procs : WF_vars(Access(p))

(***************************************************************************)
(* Properties.                                                             *)
(***************************************************************************)
\* Context p has returned from a call of method o.
Returned(p, o) == pc[p] = "idle" /\ op[p] = o

C2_UpdateWritesFOfItsRead ==
    [][\A p \in Procs :
          (pc[p] = "update_set" /\ pc'[p] = "idle")
              => cell' = Apply(ty, fn[p], tmp[p])]_vars

\* An update has just written, one write of another context having come
\* between its read and its write: that write's value (before) is gone, and
\* the cell holds a value that no f of the callers derives from it.
C2_Witness ==
    \E p \in Procs :
        /\ Returned(p, "update")
        /\ last.who = p /\ last.op = "update"
        /\ ver = rver[p] + 2
        /\ cell = last.val
        /\ cell # before
        /\ \A f \in Fns(ty) : cell # Apply(ty, f, before)

\* The value k logical negations make of b.
RECURSIVE NotTimes(_, _)
NotTimes(b, k) == IF k = 0 THEN b ELSE NotTimes(LogicalNot(b), k - 1)

\* C3: fetch_not is one indivisible step.  While fetch_not calls are the only
\* writes, no flip is lost: after k of them the boolean cell holds the initial
\* value negated k times; and each call returns the value the cell held
\* immediately before its own flip, which leaves the negation of that value.
C3_FetchNotIsAtomic ==
    /\ (ty = "bool" /\ ver = nflips) => cell = NotTimes(initv, nflips)
    /\ \A p \in Procs :
          (Returned(p, "fetch_not") /\ last.who = p)
              => (ret[p] = before /\ cell = LogicalNot(before))

\* Both contexts have flipped the cell, nothing else wrote: they returned
\* different values and the cell holds the initial value again.
C3_Witness ==
    /\ ty = "bool"
    /\ nflips = 2 /\ ver = 2
    /\ \A p \in Procs : Returned(p, "fetch_not")
    /\ ret[1] # ret[2]
    /\ cell = initv

\* C4: when no other write comes between an update's read and its write, the
\* update leaves the cell holding f of the value it held just before (f(v) for
\* the first write to a cell constructed with v), and a get made while no
\* later write has come returns that value.
C4_UpdateSingleWriter ==
    /\ [][\A p \in Procs :
             (pc[p] = "update_set" /\ pc'[p] = "idle" /\ rver[p] = ver)
                 => (cell' = Apply(ty, fn[p], cell)
                     /\ (ver = 0 => cell' = Apply(ty, fn[p], initv)))]_vars
    /\ [](\A q \in Procs :
             (Returned(q, "get") /\ rver[q] = ver /\ last.op = "update")
                 => ret[q] = last.val)

\* One context updated the freshly constructed cell, no write intervening,
\* and the other then read f(v), which is not v.
C4_Witness ==
    \E p, q \in Procs :
        /\ p # q
        /\ Returned(p, "update") /\ last.who = p /\ last.op = "update"
        /\ ver = 1
        /\ Returned(q, "get") /\ rver[q] = 1
        /\ ret[q] = cell
        /\ cell # initv
        /\ \E f \in Fns(ty) : cell = Apply(ty, f, initv)

\* C5: for both booleans b, when the only write to a cell constructed with b
\* is one fetch_not, that call returns b and leaves !b, which a later get
\* returns.
C5_FetchNotSemantics ==
    \A p \in Procs :
        (ty = "bool" /\ Returned(p, "fetch_not") /\ ver = 1)
            => /\ ret[p] = initv
               /\ cell = LogicalNot(initv)
               /\ \A q \in Procs :
                     (Returned(q, "get") /\ rver[q] = 1)
                         => ret[q] = LogicalNot(initv)

\* One context flipped the cell constructed with true and returned true; the
\* other then read false.
C5_Witness ==
    \E p, q \in Procs :
        /\ ty = "bool" /\ initv = <<1>>
        /\ Returned(p, "fetch_not") /\ ver = 1 /\ ret[p] = <<1>>
        /\ Returned(q, "get") /\ rver[q] = 1 /\ ret[q] = <<0>>

\* C6: set replaces whatever the cell held by the value it is given: while a
\* set is the latest write the cell holds exactly that value, and a get made
\* since returns it (v2 after construct(v1) and set(v2)).
C6_SetOverwrites ==
    last.op = "set" =>
        /\ cell = last.val
        /\ \A q \in Procs :
              (Returned(q, "get") /\ rver[q] = ver) => ret[q] = last.val

\* A cell constructed with one value was set to another, of which no byte is
\* the old one's, and a get then returned the new value.
C6_Witness ==
    \E q \in Procs :
        /\ last.op = "set" /\ ver = 1
        /\ before = initv
        /\ \A i \in 1..SizeOf(ty) : last.val[i] # initv[i]
        /\ Returned(q, "get") /\ rver[q] = 1 /\ ret[q] = last.val

\* The instantiations the round trip is stated for.
RoundTripTypes == {"bool", "u8", "u16", "u32", "i8", "i16", "i32"}

\* C7: a get of a cell that new(v) made and nothing wrote since returns v,
\* for bool and every integer type, the minimum and the maximum included.
C7_RoundTrip ==
    \A p \in Procs :
        (ty \in RoundTripTypes /\ ctor = "new"
         /\ Returned(p, "get") /\ rver[p] = 0)
            => ret[p] = initv

\* A get returned i16::MIN from a cell constructed with it.
C7_Witness ==
    \E p \in Procs :
        /\ ty = "i16" /\ ctor = "new" /\ initv = <<0, 128>>
        /\ Returned(p, "get") /\ rver[p] = 0 /\ ret[p] = <<0, 128>>

\* The zero value of each inner type: false, 0 or 0.0.
ZeroValue(t) ==
    CASE t = "bool" -> <<0>>
      [] t \in {"u8", "i8"} -> <<0>>
      [] t \in {"u16", "i16"} -> <<0, 0>>
      [] t \in {"u32", "i32", "f32"} -> <<0, 0, 0, 0>>

\* C8: a get of a default-constructed cell that nothing wrote since returns
\* the zero value of the inner type: false for bool, 0 for a numeric type.
C8_DefaultZero ==
    \A p \in Procs :
        (ctor = "default" /\ Returned(p, "get") /\ rver[p] = 0)
            => ret[p] = ZeroValue(ty)

\* A get returned 0 from a default-constructed RelaxedI32.
C8_Witness ==
    \E p \in Procs :
        /\ ty = "i32" /\ ctor = "default"
        /\ Returned(p, "get") /\ rver[p] = 0 /\ ret[p] = <<0, 0, 0, 0>>

\* C9: no operation waits for another context.  A context that is inside a
\* method can always make its next access, whatever the other contexts are
\* doing, and, as long as it keeps being scheduled, every access it is at is
\* made: get, set, fetch_not and serialize return, update's read is followed
\* by its write and its write by the return.
C9_NoOperationWaits ==
    /\ [](\A p \in Procs : pc[p] # "idle" => ENABLED Access(p))
    /\ \A p \in Procs :
          /\ (pc[p] # "idle") ~> (pc[p] = "idle")
          /\ (pc[p] = "update_get") ~> (pc[p] = "update_set")

\* One context is between the read and the write of its update while the
\* other is about to make an access of its own.
C9_Witness ==
    \E p, q \in Procs :
        /\ p # q
        /\ pc[p] = "update_set"
        /\ pc[q] \in {"get", "set", "update_get", "serialize"}

C11_SerializationTransparent ==
    /\ [](\A p \in Procs :
             Returned(p, "serialize")
                 => /\ \E v \in written : wire[p] = serialize_inner(ty, v)
                    /\ rver[p] = ver => wire[p] = serialize_inner(ty, cell))
    /\ [][\A p \in Procs : \A v \in written :
             (pc[p] = "deserialize" /\ pc'[p] = "idle"
              /\ arg[p] = serialize_inner(ty, v))
                 => (made'[p].ok /\ get(made'[p].val).val = v)]_vars

\* One context serialized a cell holding a value other than 0 and the other
\* deserialized the output into a cell holding that value.
C11_Witness ==
    \E p, q \in Procs :
        /\ p # q
        /\ Returned(p, "serialize") /\ wire[p] = <<ty, cell>>
        /\ cell # InnerDefault(ty)
        /\ Returned(q, "deserialize") /\ made[q].ok /\ made[q].val = cell

\* C12: deserializing a cell fails exactly when deserializing the bare
\* primitive from the same input fails, and then the result is that error,
\* unchanged, and no cell.
C12_DeserializeForwardsError ==
    [][\A p \in Procs :
          (pc[p] = "deserialize" /\ pc'[p] = "idle")
              => LET r == deserialize_inner(ty, arg[p])
                 IN  /\ made'[p].ok <=> r.ok
                     /\ ~r.ok => (made'[p].err = r.err /\ made'[p].val = None)
                     /\ r.ok => made'[p].err = None]_vars

\* A context deserialized a string into a RelaxedU16 and got the primitive's
\* invalid-type error.
C12_Witness ==
    \E p \in Procs :
        /\ ty = "u16"
        /\ Returned(p, "deserialize")
        /\ ~made[p].ok
        /\ made[p].err = <<"invalid type", "str", "u16">>
        /\ made[p].val = None

\* C13: a cell converted from v is the cell new(v) makes: it holds v, and
\* given the same calls in the same interleaving the two cells hold the same
\* value at every moment and every read of an update sees the same value.
C13_FromIsNew ==
    ctor = "from"
        => /\ ver = 0 => get(cell).val = initv
           /\ cell = twin
           /\ \A p \in Procs : tmp[p] = ttmp[p]

\* A cell converted from a value that is not the default was incremented by
\* an update and then read: it holds v + 1, as the cell of new(v) does.
C13_Witness ==
    \E p \in Procs :
        /\ ctor = "from"
        /\ initv # InnerDefault(ty)
        /\ last.op = "update" /\ ver = 1
        /\ cell = Apply(ty, "inc", initv)
        /\ Returned(p, "get") /\ ret[p] = cell
        /\ twin = cell

\* C14: Debug::fmt and Display::fmt each make one load of the cell and no
\* other access, and the text they write is the formatting of the value the
\* cell held at that load: of one value that was put in the cell, the
\* current one when no write has come since.
C14_FmtReadsOnce ==
    /\ [](\A p \in Procs :
             (Returned(p, "fmt_debug") \/ Returned(p, "fmt_display"))
                 => /\ trace[p] = <<"load">>
                    /\ \E v \in written : text[p] = debug_fmt_inner(ty, v)
                    /\ rver[p] = ver => text[p] = debug_fmt_inner(ty, cell))
    /\ [][\A p \in Procs :
             (pc[p] \in {"fmt_debug", "fmt_display"} /\ pc'[p] = "idle")
                 => /\ text'[p] = debug_fmt_inner(ty, cell)
                    /\ cell' = cell]_vars

\* A context displayed the RelaxedI8 constructed with i8::MIN as "-128";
\* the other context has since set it to i8::MAX.
C14_Witness ==
    \E p, q \in Procs :
        /\ p # q
        /\ ty = "i8" /\ initv = MinValue("i8")
        /\ Returned(p, "fmt_display") /\ rver[p] = 0
        /\ text[p] = <<"-", "1", "2", "8">>
        /\ last.who = q /\ last.op = "set" /\ ver = 1
        /\ cell = MaxValue("i8")

\* C15: a get changes nothing but its caller's own result: the step leaves
\* the stored value and the record of writes as they were and touches no
\* other context, so any two reads with no write between them see the same
\* value.
C15_GetHasNoSideEffects ==
    /\ [][\A p \in Procs :
             (pc[p] = "get" /\ pc'[p] = "idle")
                 => /\ cell' = cell
                    /\ ver' = ver /\ written' = written /\ last' = last
                    /\ \A q \in Procs \ {p} :
                          /\ pc'[q] = pc[q] /\ tmp'[q] = tmp[q]
                          /\ ret'[q] = ret[q] /\ wire'[q] = wire[q]]_vars
    /\ [](\A p, q \in Procs :
             (Returned(p, "get") /\ rver[p] = rver[q])
                 => /\ Returned(q, "get") => ret[q] = ret[p]
                    /\ pc[q] = "update_set" => tmp[q] = ret[p]
                    /\ (Returned(q, "fetch_not") /\ ver > rver[q]) => ret[q] = ret[p])

\* Both contexts read the cell constructed with a value that is not zero,
\* one after the other, and both returned that value.
C15_Witness ==
    /\ ver = 0
    /\ initv # ZeroValue(ty)
    /\ \A p \in Procs : Returned(p, "get") /\ ret[p] = initv
    /\ cell = initv

\* C17: an update is two accesses to the cell and one call of f between
\* them: a load, whose result is the value the cell holds at that moment,
\* then a store of f applied once to that result, whatever the cell holds by
\* then; the load leaves the cell as it is.
C17_UpdateOneReadOneWrite ==
    /\ [](\A p \in Procs :
             /\ pc[p] = "update_get" => trace[p] = <<>>
             /\ pc[p] = "update_set" => trace[p] = <<"load">> /\ tmp[p] \in written
             /\ Returned(p, "update") => trace[p] = <<"load", "f", "store">>)
    /\ [][\A p \in Procs :
             /\ pc[p] = "update_get" => pc'[p] \in {"update_get", "update_set"}
             /\ pc[p] = "update_set" => pc'[p] \in {"update_set", "idle"}
             /\ (pc[p] = "update_get" /\ pc'[p] = "update_set")
                   => (tmp'[p] = cell /\ cell' = cell /\ ver' = ver)
             /\ (pc[p] = "update_set" /\ pc'[p] = "idle")
                   => /\ cell' = Apply(ty, fn[p], tmp[p])
                      /\ ver' = ver + 1
                      /\ last' = [who |-> p, op |-> "update", val |-> cell']]_vars

\* An update read a value that is not zero and, after another context's
\* write, stored its increment of the value it had read.
C17_Witness ==
    \E p \in Procs :
        /\ Returned(p, "update")
        /\ trace[p] = <<"load", "f", "store">>
        /\ last.who = p /\ ver = 2 /\ rver[p] = 0
        /\ initv # ZeroValue(ty)
        /\ cell = Apply(ty, "inc", initv)
        /\ before # initv

\* v incremented k times.
RECURSIVE IncTimes(_, _)
IncTimes(v, k) == IF k = 0 THEN v ELSE IncTimes(WrappingInc(v), k - 1)

\* The number of increments the contexts of S have written.
RECURSIVE IncsOf(_)
IncsOf(S) ==
    IF S = {} THEN 0
    ELSE LET p == CHOOSE x \in S : TRUE IN nincs[p] + IncsOf(S \ {p})

\* Every write so far is the increment of another context's one update, the
\* updates under way are increments of contexts that have not written, and
\* one increment for each context does not overflow.
OnlyIncrements ==
    /\ ty \in IntTypes
    /\ ver = IncsOf(Procs)
    /\ \A p \in Procs :
          /\ nincs[p] <= 1
          /\ pc[p] \in {"update_get", "update_set"} => (fn[p] = "inc" /\ nincs[p] = 0)
    /\ \A k \in 0..(NumProcs - 1) : IncTimes(initv, k) # MaxValue(ty)

\* C18: when the only writers of an integer cell constructed with v are
\* updates with the increment, one for each context, and nothing overflows,
\* the cell holds v, ..., v + n after n of them have written, not v once one
\* has; so after all N it holds one of v + 1, ..., v + N.
C18_ConcurrentIncrements ==
    OnlyIncrements
        => /\ \E k \in 0..ver : cell = IncTimes(initv, k)
           /\ ver >= 1 => cell # initv
           /\ ver = NumProcs => \E k \in 1..NumProcs : cell = IncTimes(initv, k)

\* Two contexts have each incremented the cell once and one increment is
\* lost: the cell holds v + 1.
C18_Witness ==
    /\ OnlyIncrements
    /\ ver = 2
    /\ \E p, q \in Procs : p # q /\ nincs[p] = 1 /\ nincs[q] = 1
    /\ cell = IncTimes(initv, 1)
    /\ cell # IncTimes(initv, 2)

\* C19: when two fetch_not calls are the only writes to a boolean cell
\* constructed with b, the first returns b, the second returns !b and the
\* cell holds b again; and a fetch_not leaves what an update with the logical
\* negation, its read and its write together, leaves.
C19_FetchNotInvolution ==
    /\ [](\A p \in Procs :
             (ty = "bool" /\ nflips = 2 /\ ver = 2 /\ Returned(p, "fetch_not"))
                 => /\ cell = initv
                    /\ last.who = p => ret[p] = LogicalNot(initv)
                    /\ last.who # p => ret[p] = initv)
    /\ [][\A p \in Procs :
             (pc[p] = "fetch_not" /\ pc'[p] = "idle")
                 => cell' = update_set(cell, ty, "not", update_get(cell).val).cell]_vars

\* The cell constructed with true was flipped by one context, which returned
\* true, and then by the other, which returned false: it holds true.
C19_Witness ==
    \E p, q \in Procs :
        /\ p # q
        /\ ty = "bool" /\ initv = <<1>>
        /\ nflips = 2 /\ ver = 2
        /\ Returned(q, "fetch_not") /\ ret[q] = <<1>>
        /\ Returned(p, "fetch_not") /\ ret[p] = <<0>> /\ last.who = p
        /\ cell = <<1>>

====
